---- MODULE Spec2Model ----
(***************************************************************************)
(* ESP32 OpenSprinkler / WeatherUnderground weather service.               *)
(*                                                                         *)
(* The module models                                                       *)
(*   - fetchWUdata and its helpers (the stream scanner, the record decoder *)
(*     and the fetch loop), as operators over an abstract HTTP response;   *)
(*   - setup() of the two sketches (the V2 sketch and the older one), one  *)
(*     action per step of a wake cycle, over the three RTC variables that  *)
(*     survive deep sleep.                                                 *)
(*                                                                         *)
(* Units: the float fields of a Weather record (tempAvg, precipRate,       *)
(* precipTotal) are integers in hundredths (8000 is 80.00 F, 30 is 0.30    *)
(* in); humidityAvg is a whole percent, as in the struct.                  *)
(*                                                                         *)
(* A memory slot is a sequence: <<>> is a slot whose content is            *)
(* indeterminate (never written since wake-up, or overwritten), <<w>> a    *)
(* slot holding the record w. Reading an indeterminate slot yields any     *)
(* record of GarbageRecords.                                               *)
(***************************************************************************)
EXTENDS Integers, Sequences, FiniteSets, TLC

VARIABLES
    sketch,           \* "V2" (OS_WU_WeatherService_V2.ino) or "V1" (older sketch)
    pc,               \* position in setup(); "sleep" is deep sleep
    bootCount,        \* RTC_DATA_ATTR int bootCount
    raindelayActive,  \* RTC_DATA_ATTR boolean raindelayActive
    raindelayCount,   \* RTC_DATA_ATTR int raindelayCount
    no_of_trials,     \* WiFi association attempts of this cycle (V2)
    m,                \* count returned by the current-conditions fetch
    currentData,      \* memory at currentData[0]
    n,                \* count returned by the history fetch
    historyData,      \* memory of historyData[0..capacity-1]
    validhistoryData, \* the flag of the V2 plausibility check
    cmds,             \* commands sent to OpenSprinkler in this cycle, in order
    apiCalls,         \* fetchWUdata calls made in this cycle
    curDecoded,       \* indices of currentData decoded from this cycle's response
    histDecoded,      \* indices of historyData decoded from this cycle's response
    curRead,          \* <<w>>: the record Phase A read from currentData[0]
    todayRead,        \* <<w>>: the record Phase B read from currentData[0]
    yesterdayRead,    \* <<w>>: the record Phase B read from historyData
    readUndecoded,    \* TRUE once a slot outside the decoded indices was read
    pre,              \* the RTC variables at wake-up of this cycle
    cyclesDone,       \* wake cycles that have ended in deep sleep
    histCycle,        \* TRUE when this cycle made the history fetch
    fResp,            \* SpecFetch: the response given to fetchWUdata
    fCap,             \* SpecFetch: maxData
    fResult           \* SpecFetch: <<>> before the call, <<result>> after

vars == <<sketch, pc, bootCount, raindelayActive, raindelayCount, no_of_trials,
          m, currentData, n, historyData, validhistoryData, cmds, apiCalls,
          curDecoded, histDecoded, curRead, todayRead, yesterdayRead,
          readUndecoded, pre, cyclesDone, histCycle, fResp, fCap, fResult>>

(***************************************************************************)
(* Bounds of the model.                                                    *)
(***************************************************************************)
MaxElems == 3    \* longest array of a SpecFetch response
MaxCap == 3      \* largest maxData of a SpecFetch call
MaxHist == 2     \* longest freely composed history array of a wake cycle
MaxCycles == 13  \* wake cycles explored from power-on
MaxPrecip == 25  \* largest precipTotal (hundredths) of a SpecWatering input

(***************************************************************************)
(* Program constants.                                                      *)
(***************************************************************************)
maxbootCount == 11
maxrainCount == 11
maxTrials == 20
rainDelay == 3
humidityBase == 65
tempBase == 70 * 100
precipBase == 0 * 100
CurrentCapacity == 1
CurrentDeclared == 0
HistoryCapacityV2 == 8
HistoryCapacityV1 == 7
YesterdayIndexV1 == 5
HistoryDeclaredV2 == 8
HistoryDeclaredV1 == 7
TIME_TO_SLEEP == 300

(***************************************************************************)
(* Record Model.                                                           *)
(***************************************************************************)
Weather(t, h, temp, rate, total) ==
    [obsTimeLocal |-> t, humidityAvg |-> h, tempAvg |-> temp,
     precipRate |-> rate, precipTotal |-> total]

\* One element of the JSON array as it arrives on the stream. parse = FALSE
\* is text deserializeJson rejects. A member is <<v>> when present and <<>>
\* when the object has no such member.
JsonObject(t, h, temp, rate, total) ==
    [parse |-> TRUE, obsTimeLocal |-> t, humidityAvg |-> h,
     imperial |-> [tempAvg |-> temp, precipRate |-> rate, precipTotal |-> total]]

JsonGarbage ==
    [parse |-> FALSE, obsTimeLocal |-> <<>>, humidityAvg |-> <<>>,
     imperial |-> [tempAvg |-> <<>>, precipRate |-> <<>>, precipTotal |-> <<>>]]

ElDry == JsonObject(<<"d1">>, <<50>>, <<8000>>, <<0>>, <<0>>)
ElRain == JsonObject(<<"d2">>, <<90>>, <<6000>>, <<30>>, <<25>>)
ElHot == JsonObject(<<"d3">>, <<50>>, <<20000>>, <<0>>, <<0>>)
ElNeg == JsonObject(<<"d4">>, <<50>>, <<8000>>, <<-100>>, <<-100>>)
ElNoTime == JsonObject(<<>>, <<40>>, <<7500>>, <<0>>, <<10>>)
ElNoNum == JsonObject(<<"d6">>, <<>>, <<>>, <<>>, <<>>)

\* What an indeterminate slot can read as.
GarbageRecords ==
    { Weather("g1", 50, 8000, 0, 0), Weather("g2", 7, 6000, 30, 500),
      Weather("g3", -3, 0, -100, -100) }

\* An HTTP exchange with api.weather.com as fetchWUdata sees it.
Response(connect, sent, status, marker, elems) ==
    [connect |-> connect, sent |-> sent, status |-> status, marker |-> marker,
     elems |-> elems]

RECURSIVE SeqsUpTo(_, _)
SeqsUpTo(S, k) ==
    IF k = 0 THEN { <<>> }
    ELSE LET shorter == SeqsUpTo(S, k - 1)
         IN shorter \cup { Append(s, e) : s \in { t \in shorter : Len(t) = k - 1 }, e \in S }

Uniform(e, k) == [i \in 1..k |-> e]

\* The failures before the array is reached, each in front of the same body.
FailedResponses(elems) ==
    { Response(FALSE, TRUE, "200 OK", TRUE, elems),
      Response(TRUE, FALSE, "200 OK", TRUE, elems),
      Response(TRUE, TRUE, "404 Not Found", TRUE, elems),
      Response(TRUE, TRUE, "200 OK", FALSE, elems) }

OkResponses(arrays) == { Response(TRUE, TRUE, "200 OK", TRUE, a) : a \in arrays }

(***************************************************************************)
(* Stream Scanner and Record Decoder (part_001).                           *)
(***************************************************************************)
\* ArduinoJson's conversion of a member to a number: 0 when it is absent.
JsonNumber(member) == IF member = <<>> THEN 0 ELSE member[1]

\* doc["obsTimeLocal"] | "N/A"
JsonText(member) == IF member = <<>> THEN "N/A" ELSE member[1]

\* Mutant: any status line is accepted.
checkResponseAlways(resp) == TRUE

\* The status line after "HTTP/1.x " is compared with "200 OK".
checkResponse(resp) == resp.status = "200 OK"

jumpTostart(resp) == resp.marker

\* Mutant: the separator scan reports a further element at the closing bracket.
jumpToNextElementAlways(elems, idx) == TRUE

\* After element number idx (0-based) of the array: a comma when another
\* element follows, else the closing bracket or the end of the stream.
jumpToNextElement(elems, idx) == idx + 1 < Len(elems)

\* deserializeWeatherData on the stream positioned at element idx, writing
\* into slot w: ok is the returned bool, w the slot afterwards.
deserializeWeatherData(elems, idx, w) ==
    IF idx >= Len(elems) \/ ~elems[idx + 1].parse
    THEN [ok |-> FALSE, w |-> w]
    ELSE LET doc == elems[idx + 1]
         IN [ok |-> TRUE,
             w |-> << Weather(JsonText(doc.obsTimeLocal),
                              JsonNumber(doc.humidityAvg),
                              JsonNumber(doc.imperial.tempAvg),
                              JsonNumber(doc.imperial.precipRate),
                              JsonNumber(doc.imperial.precipTotal)) >>]

\* The while loop of fetchWUdata from the state (count, weatherData, decoded).
RECURSIVE fetchLoop(_, _, _, _, _)
fetchLoop(elems, count, weatherData, decoded, maxData) ==
    IF ~(count < maxData)
    THEN [n |-> count, weatherData |-> weatherData, decoded |-> decoded]
    ELSE LET idx == count
             d == deserializeWeatherData(elems, idx, weatherData[idx])
             stored == [weatherData EXCEPT ![idx] = d.w]
         IN IF ~d.ok
            THEN [n |-> idx + 1, weatherData |-> stored, decoded |-> decoded]
            ELSE IF ~jumpToNextElement(elems, idx)
                 THEN [n |-> idx + 1, weatherData |-> stored,
                       decoded |-> decoded \cup {idx}]
                 ELSE fetchLoop(elems, idx + 1, stored, decoded \cup {idx}, maxData)

\* fetchWUdata: n is the returned count, weatherData the caller's array
\* afterwards, decoded the indices whose decode succeeded, opened whether
\* client.connect succeeded, stopped whether client.stop() was called.
fetchWUdata(resp, weatherData, maxData) ==
    LET none(opened) == [n |-> 0, weatherData |-> weatherData, decoded |-> {},
                         opened |-> opened, stopped |-> FALSE]
    IN IF ~resp.connect THEN none(FALSE)
       ELSE IF ~resp.sent THEN none(TRUE)
       ELSE IF ~checkResponse(resp) THEN none(TRUE)
       ELSE IF ~jumpTostart(resp) THEN none(TRUE)
       ELSE LET r == fetchLoop(resp.elems, 0, weatherData, {}, maxData)
            IN [n |-> r.n, weatherData |-> r.weatherData, decoded |-> r.decoded,
                opened |-> TRUE, stopped |-> TRUE]

Blank(size) == [i \in 0..(size - 1) |-> <<>>]

(***************************************************************************)
(* Decision Engine helpers (setup() of both sketches).                     *)
(***************************************************************************)
\* Reading a slot: its record, or the arbitrary record g when indeterminate.
Read(slot, g) == IF slot = <<>> THEN g ELSE slot[1]

\* Every record a read of the slot can give.
Outcomes(slot) == { Read(slot, g) : g \in GarbageRecords }

\* if (currentData[0].precipRate > 0)
RainDetected(w) == w.precipRate > 0

\* Mutant: the rain delay command is sent whatever the counter is.
SendRainDelayAlways(active, count) == active

\* Mutant: no rain delay command in the cycle after one in which something failed.
SendRainDelayNoRetry(active, count) == active /\ count = 0 /\ ~pre.failed

\* if ((raindelayActive) && (raindelayCount == 0))
SendRainDelay(active, count) == active /\ count = 0

\* Mutant: the counter wraps one step early.
NextCountWrapEarly(c, max) == IF c < max - 1 THEN c + 1 ELSE 0

\* Mutant: the counter is incremented without the wrap.
NextCountNoWrap(c, max) == c + 1

\* if (c < max) ++c; else c = 0;
NextCount(c, max) == IF c < max THEN c + 1 ELSE 0

\* Mutant: the plausibility check without the upper temperature limit.
PlausibleHistoryNoTempMax(count, y) ==
    ~( count < 2 \/ y.tempAvg < 14 * 100
       \/ y.humidityAvg < 0 \/ y.humidityAvg > 100
       \/ y.precipRate < 0 \/ y.precipTotal < 0 )

\* The V2 plausibility check of yesterday's record; y is historyData[count-2]
\* and is looked at only when count >= 2.
PlausibleHistory(count, y) ==
    ~( count < 2 \/ y.tempAvg < 14 * 100 \/ y.tempAvg > 113 * 100
       \/ y.humidityAvg < 0 \/ y.humidityAvg > 100
       \/ y.precipRate < 0 \/ y.precipTotal < 0 )

(***************************************************************************)
(* Single-precision arithmetic. A float is [neg, int, frac]: the value     *)
(* +-(int + frac / 2^30). Every value of the Zimmerman calculation is a    *)
(* multiple of 2^-30, and each operation rounds its exact result to 24     *)
(* significant bits, ties to even, as the FPU does.                        *)
(***************************************************************************)
FracUnit == 2 ^ 30

F32(neg, int, frac) == [neg |-> neg /\ (int # 0 \/ frac # 0), int |-> int, frac |-> frac]

RECURSIVE Log2Floor(_)
Log2Floor(k) == IF k <= 1 THEN 0 ELSE 1 + Log2Floor(k \div 2)

\* The exact magnitude int + frac / 2^30 rounded to a float.
RoundF32(neg, int, frac) ==
    LET e == IF int >= 1 THEN Log2Floor(int) ELSE Log2Floor(frac) - 30
    IN IF (int = 0 /\ frac = 0) \/ e + 7 <= 0
       THEN F32(neg, int, frac)
       ELSE LET ulp == 2 ^ (e + 7)
                q == frac \div ulp
                r == frac % ulp
                up == 2 * r > ulp \/ (2 * r = ulp /\ q % 2 = 1)
                f == (IF up THEN q + 1 ELSE q) * ulp
            IN IF f = FracUnit THEN F32(neg, int + 1, 0) ELSE F32(neg, int, f)

\* An int converted to float (exact below 2^24).
IntToF32(i) == IF i < 0 THEN F32(TRUE, -i, 0) ELSE F32(FALSE, i, 0)

\* The float nearest to the decimal d / 100 (a number of the JSON text with
\* two decimals, as stored in a float field of Weather).
DecimalToF32(d) ==
    LET a == IF d < 0 THEN -d ELSE d
    IN IF a = 0 THEN F32(FALSE, 0, 0)
       ELSE LET e == CHOOSE x \in (-7)..16 :
                        100 * 2 ^ (x + 7) <= a * 128 /\ a * 128 < 100 * 2 ^ (x + 8)
                num == a * 2 ^ (23 - e)
                q == num \div 100
                r == num % 100
                mant == IF 2 * r > 100 \/ (2 * r = 100 /\ q % 2 = 1) THEN q + 1 ELSE q
            IN F32(d < 0, mant \div 2 ^ (23 - e), (mant % 2 ^ (23 - e)) * 2 ^ (e + 7))

MagLess(a, b) == a.int < b.int \/ (a.int = b.int /\ a.frac < b.frac)

NegF32(a) == F32(~a.neg, a.int, a.frac)

\* The exact sum of two floats, rounded.
AddRounded(a, b) ==
    IF a.neg = b.neg
    THEN LET f == a.frac + b.frac
         IN RoundF32(a.neg, a.int + b.int + f \div FracUnit, f % FracUnit)
    ELSE LET big == IF MagLess(a, b) THEN b ELSE a
             small == IF MagLess(a, b) THEN a ELSE b
             borrow == IF big.frac < small.frac THEN 1 ELSE 0
         IN RoundF32(big.neg, big.int - small.int - borrow,
                     (big.frac - small.frac) + borrow * FracUnit)

\* a + b in float arithmetic, on the values of the operands.
AddF32(a, b) == CHOOSE r \in { AddRounded(x, y) : x \in {a}, y \in {b} } : TRUE

SubF32(a, b) == AddF32(a, NegF32(b))

\* The exact product of a float and an int in 1..255, rounded.
MulRounded(a, k) ==
    LET half == 2 ^ 15
        hi == (a.frac \div half) * k
        lo == (hi % half) * half + (a.frac % half) * k
    IN RoundF32(a.neg, a.int * k + hi \div half + lo \div FracUnit, lo % FracUnit)

\* a * k in float arithmetic, on the value of the operand.
MulF32(a, k) == CHOOSE r \in { MulRounded(x, k) : x \in {a} } : TRUE

\* Truncation towards zero.
Truncated(x) == IF x.neg THEN -x.int ELSE x.int

\* Conversion of a float to int, on the value of the operand.
ToInt(x) == CHOOSE i \in { Truncated(v) : v \in {x} } : TRUE

\* Mutant: the Zimmerman calculation without the lower bound of 10 %.
percentWateringNoBound(y, today) ==
    ToInt(AddF32(AddF32(AddF32(IntToF32(humidityBase - y.humidityAvg),
                               MulF32(SubF32(DecimalToF32(y.tempAvg),
                                             DecimalToF32(70 * 100)), 4)),
                        MulF32(SubF32(NegF32(DecimalToF32(y.precipTotal)),
                                      DecimalToF32(today.precipTotal)), 200)),
                 IntToF32(100)))

\* The Zimmerman calculation and the lower bound of 10 %. The Weather fields
\* are decimals in hundredths; the floats the code computes with are the
\* nearest floats to them.
percentWatering(y, today) ==
    LET humidityFactor == humidityBase - y.humidityAvg
        tempFactor == MulF32(SubF32(DecimalToF32(y.tempAvg), DecimalToF32(tempBase)), 4)
        precipFactor ==
            MulF32(SubF32(SubF32(DecimalToF32(precipBase), DecimalToF32(y.precipTotal)),
                          DecimalToF32(today.precipTotal)), 200)
        percent == ToInt(AddF32(AddF32(AddF32(IntToF32(humidityFactor), tempFactor),
                                       precipFactor), IntToF32(100)))
    IN IF percent < 10 THEN 0 ELSE percent

OSParameter == "&rd="
OSOptionInd(s) == IF s = "V2" THEN "&wl=" ELSE "&o23="
HistoryCapacity(s) == IF s = "V2" THEN HistoryCapacityV2 ELSE HistoryCapacityV1

\* The number of slots historyData is declared with.
HistoryDeclared(s) == IF s = "V2" THEN HistoryDeclaredV2 ELSE HistoryDeclaredV1

\* A command as OpenSprinkler receives it; ok is httpCode > 0.
Command(name, value, ok) == [name |-> name, value |-> value, ok |-> ok]

Sent(name) == { i \in 1..Len(cmds) : cmds[i].name = name }

(***************************************************************************)
(* The responses of api.weather.com explored in a wake cycle.              *)
(***************************************************************************)
CurArrays ==
    { <<>>, <<ElDry>>, <<ElRain>>, <<ElNeg>>, <<JsonGarbage>>, <<ElRain, ElDry>> }

CurResponses == OkResponses(CurArrays) \cup FailedResponses(<<ElRain>>)

HistArrays ==
    SeqsUpTo({ElDry, ElHot, JsonGarbage}, MaxHist)
    \cup { Uniform(ElDry, k) : k \in 6..9 }
    \cup { Uniform(ElNoTime, 7), Append(Uniform(ElRain, 7), JsonGarbage) }

HistResponses == OkResponses(HistArrays) \cup FailedResponses(<<ElDry, ElDry>>)

(***************************************************************************)
(* The wake cycle.                                                         *)
(***************************************************************************)
locals == <<no_of_trials, m, currentData, n, historyData, validhistoryData,
            curDecoded, histDecoded, curRead, todayRead, yesterdayRead>>
rtc == <<bootCount, raindelayActive, raindelayCount>>
fetchVars == <<fResp, fCap, fResult>>

Init ==
    /\ sketch \in {"V2", "V1"}
    /\ pc = "sleep"
    /\ bootCount = 0
    /\ raindelayActive = FALSE
    /\ raindelayCount = 0
    /\ no_of_trials = 0
    /\ m = 0
    /\ currentData = Blank(CurrentCapacity)
    /\ n = 0
    /\ historyData = Blank(HistoryCapacity(sketch))
    /\ validhistoryData = TRUE
    /\ cmds = <<>>
    /\ apiCalls = 0
    /\ curDecoded = {}
    /\ histDecoded = {}
    /\ curRead = <<>>
    /\ todayRead = <<>>
    /\ yesterdayRead = <<>>
    /\ readUndecoded = FALSE
    /\ pre = [bootCount |-> 0, raindelayActive |-> FALSE, raindelayCount |-> 0,
             failed |-> FALSE, rainRun |-> 0]
    /\ cyclesDone = 0
    /\ histCycle = FALSE
    /\ fResp = Response(TRUE, TRUE, "200 OK", TRUE, <<>>)
    /\ fCap = CurrentCapacity
    /\ fResult = <<>>

\* Something failed in the cycle that has just ended: a fetch returned 0, the
\* history validation failed, or a command got no HTTP success.
CycleFailed ==
    \/ (apiCalls >= 1 /\ m = 0)
    \/ (histCycle /\ (n = 0 \/ ~validhistoryData))
    \/ \E i \in 1..Len(cmds) : ~cmds[i].ok

\* The number of cycles in a row, the one that has just ended included, that
\* read a current record with rain since the last dry record or power-on;
\* -1 once a cycle without a record has interrupted the row. It is counted
\* in the V2 sketch, where a dry record resets raindelayCount.
RainRun ==
    IF sketch # "V2" THEN 0
    ELSE IF curRead = <<>>
    THEN IF pre.rainRun = 0 THEN 0 ELSE -1
    ELSE IF ~RainDetected(curRead[1]) THEN 0
    ELSE IF pre.rainRun < 0 THEN -1
    ELSE pre.rainRun + 1

\* Power-on or timer wake-up: setup() starts; only the RTC variables are kept.
Boot ==
    /\ pc = "sleep"
    /\ cyclesDone < MaxCycles
    /\ pc' = "wifi"
    /\ no_of_trials' = 0
    /\ m' = 0
    /\ currentData' = Blank(CurrentCapacity)
    /\ n' = 0
    /\ historyData' = Blank(HistoryCapacity(sketch))
    /\ validhistoryData' = TRUE
    /\ cmds' = <<>>
    /\ apiCalls' = 0
    /\ curDecoded' = {}
    /\ histDecoded' = {}
    /\ curRead' = <<>>
    /\ todayRead' = <<>>
    /\ yesterdayRead' = <<>>
    /\ readUndecoded' = FALSE
    /\ histCycle' = FALSE
    /\ pre' = [bootCount |-> bootCount, raindelayActive |-> raindelayActive,
               raindelayCount |-> raindelayCount, failed |-> CycleFailed,
               rainRun |-> RainRun]
    /\ UNCHANGED <<sketch, rtc, cyclesDone, fetchVars>>

\* V2: one pass of the association loop with WiFi.status() != WL_CONNECTED.
WifiRetryV2 ==
    /\ pc = "wifi" /\ sketch = "V2"
    /\ no_of_trials < maxTrials
    /\ no_of_trials' = no_of_trials + 1
    /\ UNCHANGED <<sketch, pc, rtc, m, currentData, n, historyData,
                   validhistoryData, cmds, apiCalls, curDecoded, histDecoded,
                   curRead, todayRead, yesterdayRead, readUndecoded, pre,
                   cyclesDone, histCycle, fetchVars>>

\* V1: one pass of the association loop, which has no attempt counter.
WifiRetryV1 ==
    /\ pc = "wifi" /\ sketch = "V1"
    /\ UNCHANGED vars

\* The loop is left with the station associated. no_of_trials is not read
\* again after line 109, so its value is dropped here.
WifiJoined ==
    /\ pc = "wifi"
    /\ sketch = "V2" => no_of_trials < maxTrials
    /\ pc' = "fetchCurrent"
    /\ no_of_trials' = 0
    /\ UNCHANGED <<sketch, rtc, m, currentData, n, historyData,
                   validhistoryData, curDecoded, histDecoded, curRead,
                   todayRead, yesterdayRead, cmds, apiCalls, readUndecoded, pre,
                   cyclesDone, histCycle, fetchVars>>

\* V2: 20 attempts used up: disconnect and go to deep sleep at once.
WifiGiveUp ==
    /\ pc = "wifi" /\ sketch = "V2"
    /\ no_of_trials >= maxTrials
    /\ pc' = "suspend"
    /\ UNCHANGED <<sketch, rtc, locals, cmds, apiCalls, readUndecoded, pre,
                   cyclesDone, histCycle, fetchVars>>

\* int m = fetchWUdata(v2pwsCurrentConditions, ..., currentData, ..., 1);
FetchCurrent ==
    /\ pc = "fetchCurrent"
    /\ \E resp \in CurResponses :
          LET r == fetchWUdata(resp, currentData, CurrentCapacity)
          IN /\ m' = r.n
             /\ currentData' = r.weatherData
             /\ curDecoded' = r.decoded
    /\ apiCalls' = apiCalls + 1
    /\ pc' = "phaseA"
    /\ UNCHANGED <<sketch, rtc, no_of_trials, n, historyData, validhistoryData,
                   cmds, histDecoded, curRead, todayRead, yesterdayRead,
                   readUndecoded, pre, cyclesDone, histCycle, fetchVars>>

\* Mutant: the counter is advanced only when the command succeeded.
RainEvaluationRollback(cur, httpOk, resetOnDry) ==
    IF RainDetected(cur)
    THEN /\ raindelayActive' = TRUE
         /\ cmds' = IF SendRainDelay(TRUE, raindelayCount)
                    THEN Append(cmds, Command(OSParameter, rainDelay, httpOk))
                    ELSE cmds
         /\ raindelayCount' = IF SendRainDelay(TRUE, raindelayCount) /\ ~httpOk
                               THEN raindelayCount
                               ELSE NextCount(raindelayCount, maxrainCount)
    ELSE /\ raindelayActive' = FALSE
         /\ raindelayCount' = IF resetOnDry THEN 0 ELSE raindelayCount
         /\ cmds' = cmds

\* Mutant: the else branch leaves the counter as it is.
RainEvaluationNoReset(cur, httpOk, resetOnDry) ==
    IF RainDetected(cur)
    THEN /\ raindelayActive' = TRUE
         /\ cmds' = IF SendRainDelay(TRUE, raindelayCount)
                    THEN Append(cmds, Command(OSParameter, rainDelay, httpOk))
                    ELSE cmds
         /\ raindelayCount' = NextCount(raindelayCount, maxrainCount)
    ELSE /\ raindelayActive' = FALSE
         /\ raindelayCount' = raindelayCount
         /\ cmds' = cmds

\* The rain evaluation on the record cur; resetOnDry is the V2 reset of the
\* counter in the else branch.
RainEvaluation(cur, httpOk, resetOnDry) ==
    IF RainDetected(cur)
    THEN /\ raindelayActive' = TRUE
         /\ cmds' = IF SendRainDelay(TRUE, raindelayCount)
                    THEN Append(cmds, Command(OSParameter, rainDelay, httpOk))
                    ELSE cmds
         /\ raindelayCount' = NextCount(raindelayCount, maxrainCount)
    ELSE /\ raindelayActive' = FALSE
         /\ raindelayCount' = IF resetOnDry THEN 0 ELSE raindelayCount
         /\ cmds' = cmds

\* V2 lines 143-208: Phase A runs only when m > 0.
PhaseA_V2 ==
    /\ pc = "phaseA" /\ sketch = "V2"
    /\ IF m > 0
       THEN \E g \in GarbageRecords, httpOk \in BOOLEAN :
               LET cur == Read(currentData[0], g)
               IN /\ RainEvaluation(cur, httpOk, TRUE)
                  /\ curRead' = <<cur>>
                  /\ readUndecoded' = (readUndecoded \/ 0 \notin curDecoded)
       ELSE UNCHANGED <<raindelayActive, raindelayCount, cmds, curRead,
                        readUndecoded>>
    /\ pc' = "gate"
    /\ UNCHANGED <<sketch, bootCount, no_of_trials, m, currentData, n,
                   historyData, validhistoryData, apiCalls, curDecoded,
                   histDecoded, todayRead, yesterdayRead, pre, cyclesDone,
                   histCycle, fetchVars>>

\* Older sketch lines 114-170: Phase A runs whatever m is.
PhaseA_V1 ==
    /\ pc = "phaseA" /\ sketch = "V1"
    /\ \E g \in GarbageRecords, httpOk \in BOOLEAN :
          LET cur == Read(currentData[0], g)
          IN /\ RainEvaluation(cur, httpOk, FALSE)
             /\ curRead' = <<cur>>
             /\ readUndecoded' = (readUndecoded \/ 0 \notin curDecoded)
    /\ pc' = "gate"
    /\ UNCHANGED <<sketch, bootCount, no_of_trials, m, currentData, n,
                   historyData, validhistoryData, apiCalls, curDecoded,
                   histDecoded, todayRead, yesterdayRead, pre, cyclesDone,
                   histCycle, fetchVars>>

\* if (bootCount == 0) { int n = fetchWUdata(v2pws7DayHistory, ...); ...
\* currentData is declared with CurrentDeclared slots, so the record written
\* at currentData[0] lies outside the array and the history records written
\* to the stack may overwrite it.
FetchHistory ==
    /\ pc = "gate"
    /\ bootCount = 0
    /\ \E resp \in HistResponses, overlap \in BOOLEAN :
          LET r == fetchWUdata(resp, historyData, HistoryCapacity(sketch))
              lost == overlap /\ CurrentDeclared < CurrentCapacity /\ r.decoded # {}
          IN /\ n' = r.n
             /\ historyData' = r.weatherData
             /\ histDecoded' = r.decoded
             /\ currentData' = IF lost THEN Blank(CurrentCapacity) ELSE currentData
             /\ curDecoded' = IF lost THEN {} ELSE curDecoded
    /\ apiCalls' = apiCalls + 1
    /\ histCycle' = TRUE
    /\ pc' = "phaseB"
    /\ UNCHANGED <<sketch, rtc, no_of_trials, m, validhistoryData, cmds,
                   curRead, todayRead, yesterdayRead, readUndecoded, pre,
                   cyclesDone, fetchVars>>

\* bootCount != 0: no history fetch and no watering evaluation.
SkipHistory ==
    /\ pc = "gate"
    /\ bootCount # 0
    /\ pc' = "advance"
    /\ UNCHANGED <<sketch, rtc, locals, cmds, apiCalls, readUndecoded, pre,
                   cyclesDone, histCycle, fetchVars>>

\* V2 lines 251-331.
PhaseB_V2 ==
    /\ pc = "phaseB" /\ sketch = "V2"
    /\ \E y \in (IF n >= 2 THEN Outcomes(historyData[n - 2]) ELSE GarbageRecords),
          today \in Outcomes(currentData[0]) :
          LET valid == PlausibleHistory(n, y)
              badY == n >= 2 /\ (n - 2) \notin histDecoded
          IN /\ validhistoryData' = valid
             /\ yesterdayRead' = IF n >= 2 THEN <<y>> ELSE <<>>
             /\ IF valid
                THEN /\ todayRead' = <<today>>
                     /\ \E percent \in {percentWatering(y, today)}, httpOk \in BOOLEAN :
                           cmds' = Append(cmds, Command(OSOptionInd(sketch), percent, httpOk))
                     /\ readUndecoded' = (readUndecoded \/ badY \/ 0 \notin curDecoded)
                ELSE /\ UNCHANGED <<todayRead, cmds>>
                     /\ readUndecoded' = (readUndecoded \/ badY)
    /\ pc' = "advance"
    /\ UNCHANGED <<sketch, rtc, no_of_trials, m, currentData, n, historyData,
                   apiCalls, curDecoded, histDecoded, curRead, pre, cyclesDone,
                   histCycle, fetchVars>>

\* Older sketch lines 205-268: historyData[5], no plausibility check.
PhaseB_V1 ==
    /\ pc = "phaseB" /\ sketch = "V1"
    /\ \E y \in Outcomes(historyData[YesterdayIndexV1]),
          today \in Outcomes(currentData[0]) :
             /\ yesterdayRead' = <<y>>
             /\ todayRead' = <<today>>
             /\ \E percent \in {percentWatering(y, today)}, httpOk \in BOOLEAN :
                   cmds' = Append(cmds, Command(OSOptionInd(sketch), percent, httpOk))
             /\ readUndecoded' = (readUndecoded \/ YesterdayIndexV1 \notin histDecoded
                                  \/ 0 \notin curDecoded)
    /\ pc' = "advance"
    /\ UNCHANGED <<sketch, rtc, no_of_trials, m, currentData, n, historyData,
                   validhistoryData, apiCalls, curDecoded, histDecoded, curRead,
                   pre, cyclesDone, histCycle, fetchVars>>

\* Mutant: the end-of-cycle step also clears the rain counter.
AdvanceBootCountClearsRain ==
    /\ pc = "advance"
    /\ bootCount' = NextCount(bootCount, maxbootCount)
    /\ raindelayCount' = 0
    /\ pc' = "suspend"
    /\ UNCHANGED <<sketch, raindelayActive, locals, cmds,
                   apiCalls, readUndecoded, pre, cyclesDone, histCycle, fetchVars>>

\* if (bootCount < maxbootCount) ++bootCount; else bootCount = 0;
AdvanceBootCount ==
    /\ pc = "advance"
    /\ bootCount' = NextCount(bootCount, maxbootCount)
    /\ pc' = "suspend"
    /\ UNCHANGED <<sketch, raindelayActive, raindelayCount, locals, cmds,
                   apiCalls, readUndecoded, pre, cyclesDone, histCycle, fetchVars>>

\* WiFi.disconnect(true); esp_deep_sleep_start();
DeepSleep ==
    /\ pc = "suspend"
    /\ pc' = "sleep"
    /\ cyclesDone' = cyclesDone + 1
    /\ UNCHANGED <<sketch, rtc, locals, cmds, apiCalls, readUndecoded, pre,
                   histCycle, fetchVars>>

Next ==
    \/ Boot
    \/ WifiRetryV2
    \/ WifiRetryV1
    \/ WifiJoined
    \/ WifiGiveUp
    \/ FetchCurrent
    \/ PhaseA_V2
    \/ PhaseA_V1
    \/ FetchHistory
    \/ SkipHistory
    \/ PhaseB_V2
    \/ PhaseB_V1
    \/ AdvanceBootCount
    \/ DeepSleep

Spec == Init /\ [][Next]_vars

(***************************************************************************)
(* The wake cycle with the processor running: every step of the program    *)
(* is eventually taken. Whether the station associates is up to the        *)
(* network, so WifiJoined is not subject to fairness.                      *)
(***************************************************************************)
MaxLiveCycles == 2

BootLive == cyclesDone < MaxLiveCycles /\ Boot

ProgramStep ==
    \/ BootLive
    \/ WifiRetryV2
    \/ WifiRetryV1
    \/ WifiGiveUp
    \/ FetchCurrent
    \/ PhaseA_V2
    \/ PhaseA_V1
    \/ FetchHistory
    \/ SkipHistory
    \/ PhaseB_V2
    \/ PhaseB_V1
    \/ AdvanceBootCount
    \/ DeepSleep

NextLive == ProgramStep \/ WifiJoined

SpecLive == Init /\ [][NextLive]_vars /\ WF_vars(ProgramStep)

(***************************************************************************)
(* fetchWUdata on its own: every response and capacity within the bounds.  *)
(***************************************************************************)
FetchElems == {ElDry, ElRain, JsonGarbage}

\* Arrays with an object that lacks members.
IncompleteArrays == { <<ElNoNum>>, <<ElNoTime>>, <<ElDry, ElNoNum>>, <<ElNoTime, ElRain>> }

FetchArrays == SeqsUpTo(FetchElems, MaxElems) \cup IncompleteArrays

FetchResponses ==
    OkResponses(FetchArrays) \cup UNION { FailedResponses(a) : a \in FetchArrays }

InitFetch ==
    /\ sketch = "V2"
    /\ pc = "call"
    /\ bootCount = 0
    /\ raindelayActive = FALSE
    /\ raindelayCount = 0
    /\ no_of_trials = 0
    /\ m = 0
    /\ currentData = Blank(CurrentCapacity)
    /\ n = 0
    /\ historyData = Blank(HistoryCapacity(sketch))
    /\ validhistoryData = TRUE
    /\ cmds = <<>>
    /\ apiCalls = 0
    /\ curDecoded = {}
    /\ histDecoded = {}
    /\ curRead = <<>>
    /\ todayRead = <<>>
    /\ yesterdayRead = <<>>
    /\ readUndecoded = FALSE
    /\ pre = [bootCount |-> 0, raindelayActive |-> FALSE, raindelayCount |-> 0,
             failed |-> FALSE, rainRun |-> 0]
    /\ cyclesDone = 0
    /\ histCycle = FALSE
    /\ fResp \in FetchResponses
    /\ fCap \in 1..MaxCap
    /\ fResult = <<>>

\* One call of fetchWUdata on a fresh array of fCap slots.
FetchCall ==
    /\ pc = "call"
    /\ fResult' = << fetchWUdata(fResp, Blank(fCap), fCap) >>
    /\ pc' = "returned"
    /\ UNCHANGED <<sketch, rtc, locals, cmds, apiCalls, readUndecoded, pre,
                   cyclesDone, histCycle, fResp, fCap>>

NextFetch == FetchCall

SpecFetch == InitFetch /\ [][NextFetch]_vars

(***************************************************************************)
(* The watering evaluation on its own: Phase B of the V2 sketch on every   *)
(* plausible yesterday and today record of a grid.                         *)
(***************************************************************************)
HumidityGrid == { h \in 0..100 : h % 25 = 0 }

TempGrid == { t \in 14..113 : t % 14 = 0 \/ t = 113 }

PrecipGrid == 0..MaxPrecip

InitWatering ==
    /\ sketch = "V2"
    /\ pc = "evaluate"
    /\ bootCount = 0
    /\ raindelayActive = FALSE
    /\ raindelayCount = 0
    /\ no_of_trials = 0
    /\ m = 1
    /\ currentData = Blank(CurrentCapacity)
    /\ n = 2
    /\ historyData = Blank(HistoryCapacity(sketch))
    /\ validhistoryData = TRUE
    /\ cmds = <<>>
    /\ apiCalls = 0
    /\ curDecoded = {}
    /\ histDecoded = {}
    /\ curRead = <<>>
    /\ \E pt \in PrecipGrid : todayRead = << Weather("today", 50, 70 * 100, 0, pt) >>
    /\ \E h \in HumidityGrid, t \in TempGrid, py \in PrecipGrid :
          yesterdayRead = << Weather("yesterday", h, t * 100, 0, py) >>
    /\ readUndecoded = FALSE
    /\ pre = [bootCount |-> 0, raindelayActive |-> FALSE, raindelayCount |-> 0,
             failed |-> FALSE, rainRun |-> 0]
    /\ cyclesDone = 0
    /\ histCycle = TRUE
    /\ fResp = Response(TRUE, TRUE, "200 OK", TRUE, <<>>)
    /\ fCap = CurrentCapacity
    /\ fResult = <<>>

\* V2 lines 262-315 on the records yesterdayRead and todayRead.
WateringEvaluation ==
    /\ pc = "evaluate"
    /\ LET valid == PlausibleHistory(n, yesterdayRead[1])
       IN /\ validhistoryData' = valid
          /\ IF valid
             THEN \E percent \in {percentWatering(yesterdayRead[1], todayRead[1])},
                     httpOk \in BOOLEAN :
                     cmds' = Append(cmds, Command(OSOptionInd(sketch), percent, httpOk))
             ELSE cmds' = cmds
    /\ pc' = "evaluated"
    /\ UNCHANGED <<sketch, rtc, no_of_trials, m, currentData, n, historyData,
                   apiCalls, curDecoded, histDecoded, curRead, todayRead,
                   yesterdayRead, readUndecoded, pre, cyclesDone, histCycle,
                   fetchVars>>

NextWatering == WateringEvaluation

SpecWatering == InitWatering /\ [][NextWatering]_vars

(***************************************************************************)
(* Properties.                                                             *)
(***************************************************************************)
Min(a, b) == IF a < b THEN a ELSE b

\* The record whose fields are the members of a JSON object that has them all.
FieldsOf(el) ==
    Weather(el.obsTimeLocal[1], el.humidityAvg[1], el.imperial.tempAvg[1],
            el.imperial.precipRate[1], el.imperial.precipTotal[1])

Returned == pc = "returned" /\ fResult # <<>>

ReachedArray == fResp.connect /\ fResp.sent /\ fResp.status = "200 OK" /\ fResp.marker

\* The JSON object has the four numeric members.
NumericComplete(el) ==
    /\ el.humidityAvg # <<>> /\ el.imperial.tempAvg # <<>>
    /\ el.imperial.precipRate # <<>> /\ el.imperial.precipTotal # <<>>

WellFormed ==
    /\ ReachedArray
    /\ \A i \in 1..Len(fResp.elems) :
          /\ fResp.elems[i].parse
          /\ NumericComplete(fResp.elems[i])
          /\ fResp.elems[i].obsTimeLocal # <<>>

\* Element k is the first one fetchWUdata fails to decode.
FirstDecodeFailure(k) ==
    /\ k < Len(fResp.elems)
    /\ ~fResp.elems[k + 1].parse
    /\ \A j \in 1..k : fResp.elems[j].parse

\* C1: when the decode of element k (0-based, k < capacity) of the target
\* array fails, fetchWUdata returns count = k, and every slot below the
\* returned count holds a successfully decoded record.
C1_DecodeFailureCount ==
    (Returned /\ ReachedArray) =>
        \A k \in 0..(fCap - 1) :
            FirstDecodeFailure(k) =>
                /\ fResult[1].n = k
                /\ \A i \in 0..(fResult[1].n - 1) : i \in fResult[1].decoded

\* C2: for a well-formed response with e >= 1 decodable elements and a
\* capacity c >= 1, fetchWUdata returns min(e, c), and record i below the
\* count holds the fields of element i of the array.
C2_CountIsMin ==
    (Returned /\ WellFormed /\ Len(fResp.elems) >= 1) =>
        /\ fResult[1].n = Min(Len(fResp.elems), fCap)
        /\ \A i \in 0..(fResult[1].n - 1) :
              fResult[1].weatherData[i] = << FieldsOf(fResp.elems[i + 1]) >>

\* C2 witness: a well-formed array shorter than the capacity was fetched and
\* the loop stopped at the closing bracket.
C2_Witness ==
    /\ Returned /\ WellFormed
    /\ Len(fResp.elems) = 2 /\ fCap = 3
    /\ fResult[1].n = 2
    /\ fResult[1].weatherData[1] = << FieldsOf(fResp.elems[2]) >>

\* C3: in the V2 sketch every record the Decision Engine reads in a wake
\* cycle was successfully decoded from a response of that cycle.
C3_OnlyDecodedRecordsRead == sketch = "V2" => ~readUndecoded

\* C4: in a V2 wake cycle in which no current-conditions record was decoded,
\* Phase A leaves raindelayActive and raindelayCount as they were at wake-up
\* and sends no rain delay command.
C4_NoRecordNoPhaseA ==
    (sketch = "V2" /\ pc = "gate" /\ 0 \notin curDecoded) =>
        /\ raindelayActive = pre.raindelayActive
        /\ raindelayCount = pre.raindelayCount
        /\ Sent(OSParameter) = {}

PhaseARead == pc = "gate" /\ curRead # <<>>

\* C5: after Phase A has read a current record with precipRate > 0,
\* raindelayActive is true, exactly one rain delay command was sent if
\* raindelayCount was 0 at wake-up and none otherwise, and raindelayCount is
\* the wake-up value plus one, or 0 when that value was maxrainCount.
C5_RainyPhaseA ==
    (PhaseARead /\ curRead[1].precipRate > 0) =>
        /\ raindelayActive
        /\ Cardinality(Sent(OSParameter)) = (IF pre.raindelayCount = 0 THEN 1 ELSE 0)
        /\ raindelayCount =
              (IF pre.raindelayCount = maxrainCount THEN 0 ELSE pre.raindelayCount + 1)

\* C5 witness: a rainy cycle of the V2 sketch that started with the counter at
\* its maximum: no command, and the counter wrapped to 0.
C5_Witness ==
    /\ sketch = "V2" /\ PhaseARead /\ 0 \in curDecoded
    /\ curRead[1].precipRate > 0
    /\ pre.raindelayCount = maxrainCount
    /\ raindelayCount = 0
    /\ Sent(OSParameter) = {}

\* C6: after Phase A has read a current record with precipRate <= 0,
\* raindelayActive is false, raindelayCount is 0 and no command was sent; and
\* a rainy Phase A in a cycle that woke up with raindelayActive false (the
\* last observation was dry) has sent a rain delay command.
C6_DryResetsCounter ==
    /\ (PhaseARead /\ curRead[1].precipRate <= 0) =>
          (~raindelayActive /\ raindelayCount = 0 /\ Sent(OSParameter) = {})
    /\ (PhaseARead /\ curRead[1].precipRate > 0 /\ ~pre.raindelayActive) =>
          Sent(OSParameter) # {}

\* C7: both counters stay within 0..maximum in every state, and a step that
\* advances a counter takes the maximum to 0 and any smaller value v to v+1
\* (raindelayCount is otherwise only reset to 0 or left alone).
C7_CountersWrap ==
    /\ [](bootCount \in 0..maxbootCount /\ raindelayCount \in 0..maxrainCount)
    /\ [][ /\ bootCount' # bootCount =>
                bootCount' = (IF bootCount = maxbootCount THEN 0 ELSE bootCount + 1)
           /\ raindelayCount' # raindelayCount =>
                \/ raindelayCount' = (IF raindelayCount = maxrainCount
                                      THEN 0 ELSE raindelayCount + 1)
                \/ raindelayCount' = 0 ]_vars

\* C7 witness: a cycle in which both counters wrapped from their maximum to 0.
C7_Witness ==
    /\ pc = "suspend"
    /\ pre.bootCount = maxbootCount /\ bootCount = 0
    /\ pre.raindelayCount = maxrainCount /\ raindelayCount = 0

\* C8: in the V2 sketch the history fetch and the watering command happen
\* only in a cycle that woke up with bootCount = 0; a cycle makes at most two
\* fetches and sends at most one watering command; and the cycles with a
\* history fetch are the first one after power-on and then every
\* (maxbootCount + 1)-th one.
C8_HistoryEveryTwelfthCycle ==
    sketch = "V2" =>
        /\ histCycle => pre.bootCount = 0
        /\ Sent(OSOptionInd(sketch)) # {} => pre.bootCount = 0
        /\ apiCalls <= 2
        /\ Cardinality(Sent(OSOptionInd(sketch))) <= 1
        /\ (pc = "sleep" /\ cyclesDone > 0) =>
              (histCycle <=> (cyclesDone - 1) % (maxbootCount + 1) = 0)

PhaseBRan == histCycle /\ pc \in {"advance", "suspend", "sleep"}

\* Yesterday's record as the claim describes an implausible one.
ImplausibleYesterday ==
    \/ n < 2
    \/ /\ yesterdayRead # <<>>
       /\ \/ yesterdayRead[1].tempAvg < 1400 \/ yesterdayRead[1].tempAvg > 11300
          \/ yesterdayRead[1].humidityAvg < 0 \/ yesterdayRead[1].humidityAvg > 100
          \/ yesterdayRead[1].precipRate < 0 \/ yesterdayRead[1].precipTotal < 0

\* C9: when Phase B of the V2 sketch has run on an implausible yesterday
\* (fewer than two history records, or a value out of range), no watering
\* command was sent in the cycle and bootCount is advanced by one before
\* deep sleep.
C9_ImplausibleNoCommand ==
    (sketch = "V2" /\ PhaseBRan /\ ImplausibleYesterday) =>
        /\ Sent(OSOptionInd(sketch)) = {}
        /\ pc \in {"suspend", "sleep"} => bootCount = pre.bootCount + 1

\* C9 witness: Phase B read a decoded yesterday of 200 F, sent nothing, and
\* the cycle reached deep sleep with bootCount advanced.
C9_Witness ==
    /\ sketch = "V2" /\ PhaseBRan /\ pc = "sleep"
    /\ n >= 2 /\ (n - 2) \in histDecoded
    /\ yesterdayRead # <<>> /\ yesterdayRead[1].tempAvg = 20000
    /\ Sent(OSOptionInd(sketch)) = {}
    /\ bootCount = 1

\* C10: in the V2 sketch a watering command is sent only when the current
\* record used in precipFactor was decoded in this cycle and has
\* precipRate >= 0 and precipTotal >= 0.
C10_CurrentRecordValidated ==
    (sketch = "V2" /\ Sent(OSOptionInd(sketch)) # {}) =>
        /\ 0 \in curDecoded
        /\ todayRead # <<>>
        /\ todayRead[1].precipRate >= 0
        /\ todayRead[1].precipTotal >= 0

\* The percentage of the Zimmerman formula in hundredths, in exact arithmetic.
ExactPercent100(y, today) ==
    (humidityBase - y.humidityAvg) * 100 + (y.tempAvg - 70 * 100) * 4
    + (0 - y.precipTotal - today.precipTotal) * 200 + 100 * 100

\* clamp(p) = 0 if p < 10, p otherwise, on a whole percentage in hundredths.
ClampedPercent(p100) == IF p100 < 10 * 100 THEN 0 ELSE p100 \div 100

Evaluated == pc = "evaluated" /\ Sent(OSOptionInd(sketch)) # {}

\* C11: for every plausible input of the grid (humidityAvg in 0..100, whole
\* tempAvg in 14..113, precipTotal of yesterday and today in non-negative
\* hundredths) the value sent in the watering command is
\* clamp((65 - humidityAvg) + (tempAvg - 70)*4
\*       + (0 - yesterday.precipTotal - today.precipTotal)*200 + 100).
C11_ZimmermanValue ==
    Evaluated =>
        cmds[1].value = ClampedPercent(ExactPercent100(yesterdayRead[1], todayRead[1]))

PlausibleYesterday ==
    /\ n >= 2 /\ yesterdayRead # <<>>
    /\ yesterdayRead[1].tempAvg >= 1400 /\ yesterdayRead[1].tempAvg <= 11300
    /\ yesterdayRead[1].humidityAvg >= 0 /\ yesterdayRead[1].humidityAvg <= 100
    /\ yesterdayRead[1].precipRate >= 0 /\ yesterdayRead[1].precipTotal >= 0

\* C12: when Phase B of the V2 sketch has run on a plausible yesterday,
\* exactly one watering command was sent; its value is 0 when the formula
\* gives less than 10, and it is never negative and never in 1..9.
C12_OneCommandClamped ==
    (sketch = "V2" /\ PhaseBRan /\ PlausibleYesterday) =>
        /\ Cardinality(Sent(OSOptionInd(sketch))) = 1
        /\ \A i \in Sent(OSOptionInd(sketch)) :
              /\ cmds[i].value >= 0
              /\ cmds[i].value \notin 1..9
              /\ ExactPercent100(yesterdayRead[1], todayRead[1]) < 10 * 100
                    => cmds[i].value = 0

\* C12 witness: a plausible, decoded yesterday whose formula value is below
\* 10: the command was sent and carries 0.
C12_Witness ==
    /\ sketch = "V2" /\ PhaseBRan /\ PlausibleYesterday
    /\ (n - 2) \in histDecoded
    /\ ExactPercent100(yesterdayRead[1], todayRead[1]) < 10 * 100
    /\ Cardinality(Sent(OSOptionInd(sketch))) = 1
    /\ \A i \in Sent(OSOptionInd(sketch)) : cmds[i].value = 0

\* C13: when the connection cannot be opened, the request cannot be sent,
\* the status line is not 200 OK or the array marker is not found,
\* fetchWUdata returns 0 whatever the rest of the stream holds, and no slot
\* of the caller's array has been written.
C13_EarlyFailureReturnsZero ==
    (Returned /\ ~ReachedArray) =>
        /\ fResult[1].n = 0
        /\ fResult[1].decoded = {}
        /\ fResult[1].weatherData = Blank(fCap)

\* C13 witness: a 404 response whose body holds a decodable array was
\* answered with count 0 and an untouched array.
C13_Witness ==
    /\ Returned
    /\ fResp.connect /\ fResp.sent /\ fResp.marker /\ fResp.status = "404 Not Found"
    /\ Len(fResp.elems) >= 1 /\ fResp.elems[1].parse
    /\ fResult[1].n = 0
    /\ fResult[1].weatherData = Blank(fCap)

C15_MissingMemberFailsDecode ==
    (Returned /\ ReachedArray) =>
        /\ \A i \in fResult[1].decoded : NumericComplete(fResp.elems[i + 1])
        /\ \A i \in 0..(Min(Len(fResp.elems), fCap) - 1) :
              ( /\ \A j \in 1..(i + 1) : fResp.elems[j].parse /\ NumericComplete(fResp.elems[j])
                /\ fResp.elems[i + 1].obsTimeLocal = <<>> )
              => /\ i \in fResult[1].decoded
                 /\ fResult[1].weatherData[i][1].obsTimeLocal = "N/A"

RainDelaySent == Sent(OSParameter)

WateringSent == Sent(OSOptionInd(sketch))

CommandFailed == \E i \in 1..Len(cmds) : ~cmds[i].ok

PhaseADone == pc \in {"gate", "phaseB", "advance", "suspend", "sleep"}

\* C16: in a V2 cycle in which a command got no HTTP success, the RTC
\* variables are what they are after a successful command (the rain state
\* follows the record read, bootCount advances by one with wrap), the history
\* steps are not skipped, and no command is sent twice.
C16_FailedCommandChangesNothing ==
    (sketch = "V2" /\ CommandFailed) =>
        /\ Cardinality(RainDelaySent) <= 1
        /\ Cardinality(WateringSent) <= 1
        /\ (PhaseADone /\ curRead # <<>>) =>
              IF curRead[1].precipRate > 0
              THEN /\ raindelayActive
                   /\ raindelayCount = (pre.raindelayCount + 1) % (maxrainCount + 1)
              ELSE ~raindelayActive /\ raindelayCount = 0
        /\ (pc \in {"advance", "suspend", "sleep"} /\ pre.bootCount = 0) => histCycle
        /\ pc = "sleep" => bootCount = (pre.bootCount + 1) % (maxbootCount + 1)

\* C16 witness: a V2 cycle whose rain delay command and watering command
\* both failed has run to deep sleep with both counters advanced.
C16_Witness ==
    /\ sketch = "V2" /\ pc = "sleep"
    /\ \E i \in RainDelaySent : ~cmds[i].ok
    /\ \E i \in WateringSent : ~cmds[i].ok
    /\ raindelayActive /\ raindelayCount = 1
    /\ bootCount = 1

C18_CycleTerminates == (pc = "wifi") ~> (pc = "sleep")

\* C19: bootCount advances by one, wrapping from 11 to 0, on every path to
\* deep sleep: at each deep sleep it is one more (mod 12) than at wake-up.
C19_BootCountAdvancesOnEveryPath ==
    (pc = "sleep" /\ cyclesDone >= 1) =>
        bootCount = (pre.bootCount + 1) % (maxbootCount + 1)

\* C20: whenever Phase B of the V2 sketch computes a percentage, n >= 2, the
\* record at index n-2 was successfully decoded in this cycle's history
\* fetch, and exactly one successfully decoded record follows it.
C20_YesterdayIsSecondToLast ==
    (sketch = "V2" /\ PhaseBRan /\ WateringSent # {}) =>
        /\ n >= 2
        /\ (n - 2) \in histDecoded
        /\ Cardinality({ i \in histDecoded : i > n - 2 }) = 1

\* C21: the counts returned are at most the capacities passed, and every
\* slot fetchWUdata has written lies inside the array the caller declared:
\* below CurrentDeclared in currentData, below HistoryDeclared in historyData.
C21_WritesWithinDeclared ==
    /\ m <= CurrentCapacity
    /\ n <= HistoryCapacity(sketch)
    /\ \A i \in DOMAIN currentData : currentData[i] # <<>> => i < CurrentDeclared
    /\ \A i \in DOMAIN historyData : historyData[i] # <<>> => i < HistoryDeclared(sketch)

\* C22: in a row of V2 cycles that each read a current record with rain,
\* counted from the first rainy cycle after a dry record or power-on, the
\* rain delay command is sent in the first cycle and in every 12th after it
\* and in no other; 12 wake periods are not longer than the rainDelay hours
\* each command sets.
C22_RainDelayEveryTwelfthCycle ==
    (sketch = "V2" /\ PhaseADone /\ curRead # <<>> /\ curRead[1].precipRate > 0
       /\ pre.rainRun >= 0) =>
        /\ Cardinality(RainDelaySent)
              = (IF pre.rainRun % (maxrainCount + 1) = 0 THEN 1 ELSE 0)
        /\ (maxrainCount + 1) * TIME_TO_SLEEP <= rainDelay * 3600

\* C22 witness: the 13th rainy cycle in a row has sent the command again.
C22_Witness ==
    /\ sketch = "V2" /\ PhaseADone
    /\ curRead # <<>> /\ curRead[1].precipRate > 0
    /\ pre.rainRun = maxrainCount + 1
    /\ Cardinality(RainDelaySent) = 1

\* C24: in the V2 sketch, at the end of every wake cycle, raindelayActive =
\* FALSE implies raindelayCount = 0.
C24_InactiveMeansCountZero ==
    (sketch = "V2" /\ pc \in {"suspend", "sleep"}) =>
        (~raindelayActive => raindelayCount = 0)

\* C24 witness: a V2 cycle that woke up with rain active and a counter above
\* 0 has read a dry record and ended with the counter at 0.
C24_Witness ==
    /\ sketch = "V2" /\ pc = "sleep"
    /\ pre.raindelayActive /\ pre.raindelayCount > 0
    /\ curRead # <<>> /\ curRead[1].precipRate <= 0
    /\ ~raindelayActive /\ raindelayCount = 0

\* The successions of program positions from the first fetch to deep sleep.
StepOrder ==
    { <<"fetchCurrent", "phaseA">>, <<"phaseA", "gate">>, <<"gate", "phaseB">>,
      <<"gate", "advance">>, <<"phaseB", "advance">>, <<"advance", "suspend">>,
      <<"suspend", "sleep">> }

\* C25: each step changes only its own persistent state and the steps follow
\* one another in the fixed order: the two fetches change none of
\* raindelayActive, raindelayCount, bootCount; Phase A does not change
\* bootCount; Phase B and the advance of bootCount change neither
\* raindelayActive nor raindelayCount; the history fetch is made exactly
\* when bootCount is 0; from the first fetch on, a step is followed only by
\* the next one in the order fetch(current), Phase A, fetch(history),
\* Phase B, advance, suspend.
C25_FramesAndOrder ==
    [][ /\ (pc = "fetchCurrent" \/ (pc = "gate" /\ pc' = "phaseB")) =>
              (UNCHANGED rtc /\ apiCalls' = apiCalls + 1)
        /\ pc = "phaseA" => bootCount' = bootCount
        /\ pc \in {"phaseB", "advance"} =>
              UNCHANGED <<raindelayActive, raindelayCount>>
        /\ pc = "gate" => ((pc' = "phaseB") <=> (bootCount = 0))
        /\ pc # "advance" => bootCount' = bootCount
        /\ pc \in {"fetchCurrent", "phaseA", "gate", "phaseB", "advance", "suspend"}
              => <<pc, pc'>> \in StepOrder
      ]_vars

\* C25 witness: a V2 cycle has run every step: both fetches, Phase A with a
\* rain delay command, Phase B with a watering command and the advance of
\* bootCount, and the rain state of Phase A is still in place at suspend.
C25_Witness ==
    /\ sketch = "V2" /\ pc = "suspend"
    /\ histCycle /\ apiCalls = 2
    /\ RainDelaySent # {} /\ WateringSent # {}
    /\ raindelayActive /\ raindelayCount = 1
    /\ pre.bootCount = 0 /\ bootCount = 1

\* The rain state and the number of rain delay commands the V2 code gives
\* from the state at wake-up, the count m and the current record read.
V2RainOutcome ==
    IF m > 0 /\ curRead # <<>>
    THEN IF curRead[1].precipRate > 0
         THEN [active |-> TRUE,
               count |-> (pre.raindelayCount + 1) % (maxrainCount + 1),
               sent |-> IF pre.raindelayCount = 0 THEN 1 ELSE 0]
         ELSE [active |-> FALSE, count |-> 0, sent |-> 0]
    ELSE [active |-> pre.raindelayActive, count |-> pre.raindelayCount, sent |-> 0]

\* C23: the two sketches are the same Decision Engine: from the same state
\* at wake-up, on the same fetch results and command outcomes, a cycle of
\* either sketch leaves the raindelayActive and raindelayCount and sends the
\* rain delay commands that the V2 code does, and sends a watering command
\* only when the history fetch returned at least two records, as V2 does.
C23_SketchesAgree ==
    /\ (PhaseADone /\ apiCalls >= 1) =>
          /\ raindelayActive = V2RainOutcome.active
          /\ raindelayCount = V2RainOutcome.count
          /\ Cardinality(RainDelaySent) = V2RainOutcome.sent
    /\ (PhaseBRan /\ n < 2) => WateringSent = {}

====
